---- MODULE Spec2Model ----
(***************************************************************************)
(* Model of src/feedbacksystem.py: the payment-confirmation webhook, the   *)
(* detached WhatsApp notification and the feedback endpoint, over the      *)
(* shared SQLite store (tables "customers" and "feedback").                *)
(*                                                                         *)
(* Requests are numbered in arrival order; each is a payment confirmation  *)
(* or a feedback submission.  A handler is split at its database           *)
(* statements (query / commit / refresh): these are the points at which    *)
(* another worker using the same database file can act.  Code between two  *)
(* statements touches only the request's own locals and is folded into the *)
(* statement that precedes it.  Every database statement can raise (the    *)
(* handlers have an "except Exception" arm for this): the model chooses    *)
(* nondeterministically whether it does.                                   *)
(***************************************************************************)
EXTENDS Integers, FiniteSets, Sequences, TLC

\* ------------------------------------------------------------------ bounds
NumReq == 3      \* requests in a run

ReqIds == 1..NumReq

\* ------------------------------------------------------------------ inputs
P1 == "254712345678"
P2 == "254700000001"

\* PaymentPayload bodies as FastAPI hands them to the handler (the fields the
\* handler reads; MiddleName and LastName default to "").
PaymentPayloads ==
  { [TransID |-> "T1", MSISDN |-> P1, FirstName |-> "Jane",  MiddleName |-> "",  LastName |-> "Doe"],
    [TransID |-> "T2", MSISDN |-> P1, FirstName |-> "Janet", MiddleName |-> "A", LastName |-> "Roe"],
    [TransID |-> "T3", MSISDN |-> P2, FirstName |-> "John",  MiddleName |-> "",  LastName |-> ""],
    [TransID |-> "T4", MSISDN |-> P1, FirstName |-> "",      MiddleName |-> "",  LastName |-> "Doe"],
    [TransID |-> "T5", MSISDN |-> "", FirstName |-> "Jane",  MiddleName |-> "",  LastName |-> "Doe"] }

NoPayload == [TransID |-> "", MSISDN |-> "", FirstName |-> "", MiddleName |-> "", LastName |-> ""]

\* FeedbackResponse bodies.
FeedbackResponses ==
  { [phone |-> P1, rating |-> 5, comments |-> "great service"],
    [phone |-> P1, rating |-> 4, comments |-> "good"],
    [phone |-> P2, rating |-> 4, comments |-> "good"] }

NoFeedbackResponse == [phone |-> "", rating |-> 0, comments |-> ""]

\* ------------------------------------------------------------------ tables
\* A row of "customers"; id 0 stands for Python's None (no row).
None == [id |-> 0, first_name |-> "", second_name |-> "", last_name |-> "", phone |-> ""]

Customer(id, first_name, second_name, last_name, phone) ==
  [id |-> id, first_name |-> first_name, second_name |-> second_name,
   last_name |-> last_name, phone |-> phone]

\* A row of "feedback".
Feedback(id, customer_id, rating, comments) ==
  [id |-> id, customer_id |-> customer_id, rating |-> rating, comments |-> comments]

NoFeedback == Feedback(0, 0, 0, "")

VARIABLES
  customers,     \* rows of table "customers" (committed)
  feedback,      \* rows of table "feedback" (committed)
  kind,          \* request -> "none" (not arrived), "payment", "feedback",
                 \*            "check" (check-database) or "health"
  pc,            \* request -> position in its handler
  payload,       \* payment request -> its PaymentPayload
  body,          \* feedback request -> its FeedbackResponse
  customer,      \* request -> the handler's local variable `customer`
  new_feedback,  \* feedback request -> local variable `new_feedback`
  exc,           \* request -> exception caught by the handler's except arm
  status,        \* request -> HTTP status of the response (0: none yet)
  task,          \* payment request -> state of its background task
  background_tasks, \* payment request -> the calls add_task has queued
  detail,        \* request -> text of the response body ("": none yet)
  env,           \* names of the environment variables that are set
  spc,           \* position of the startup hook
  access_token,  \* the bearer token get_access_token returned ("": none)
  startup_log    \* the lines the startup hook and its callees have printed

vars == <<customers, feedback, kind, pc, payload, body, customer, new_feedback,
          exc, status, task, background_tasks, detail,
          env, spc, access_token, startup_log>>

startupVars == <<env, spc, access_token, startup_log>>

servingVars == <<customers, feedback, kind, pc, payload, body, customer, new_feedback,
                 exc, status, task, background_tasks, detail>>

\* ------------------------------------------------------------- the store
Max(S) == CHOOSE x \in S : \A y \in S : y <= x

\* INTEGER PRIMARY KEY: the store assigns the next identifier.
NextId(rows) == IF rows = {} THEN 1 ELSE Max({row.id : row \in rows}) + 1

\* db.query(Customer).filter(Customer.phone == phone).first()
QueryCustomer(phone) ==
  IF \E c \in customers : c.phone = phone
    THEN CHOOSE c \in customers :
           c.phone = phone /\ \A d \in customers : d.phone = phone => c.id <= d.id
    ELSE None

NoUniqueViolation(phone) == FALSE

\* Column(String, unique=True): an INSERT of an already stored phone fails.
UniqueViolation(phone) == \E c \in customers : c.phone = phone

\* ------------------------------------------------------------ both handlers
\* raise HTTPException(status_code, ...): the response of request r, with the
\* exception the except arm caught ("none" when the handler raised it itself).
Raise(r, status_code, e) ==
  /\ pc'     = [pc EXCEPT ![r] = "done"]
  /\ status' = [status EXCEPT ![r] = status_code]
  /\ exc'    = [exc EXCEPT ![r] = e]

\* The body of the response of request r: the "detail" of an HTTPException or
\* the "status" / "message" text of a returned object.
Respond(r, text) == detail' = [detail EXCEPT ![r] = text]

\* Request r is the next to arrive; the server takes requests once the
\* startup hook has completed.
Arrives(r) ==
  /\ spc = "complete"
  /\ kind[r] = "none"
  /\ r > 1 => kind[r - 1] # "none"

\* ----------------------------------------------------- payment_confirmation
parse_payment_json(data) ==
  [transaction_id |-> data.TransID,
   firstname      |-> data.FirstName,
   secondname     |-> IF data.MiddleName # "" THEN data.MiddleName ELSE "",
   lastname       |-> IF data.LastName # "" THEN data.LastName ELSE "",
   phone          |-> data.MSISDN]

ValidFirstNameOnly(firstname, phone) == firstname # ""

\* The negation of "if not firstname or not phone".
ValidPayment(firstname, phone) == firstname # "" /\ phone # ""

\* The arguments background_tasks.add_task(send_whatsapp_message, phone,
\* firstname) queues for request r.
add_task(r, phone, firstname) ==
  background_tasks' = [background_tasks EXCEPT
                         ![r] = Append(@, [phone |-> phone, firstname |-> firstname])]

\* background_tasks.add_task(send_whatsapp_message, phone, firstname); return
ScheduleAndReturn(r) ==
  /\ task'   = [task EXCEPT ![r] = "scheduled"]
  /\ pc'     = [pc EXCEPT ![r] = "done"]
  /\ status' = [status EXCEPT ![r] = 200]
  /\ Respond(r, "Payment confirmed and feedback request sent.")
  /\ UNCHANGED exc

PaymentErrorLeaks(r, e) ==
  /\ Raise(r, 500, e)
  /\ Respond(r, e)
  /\ UNCHANGED <<task, background_tasks>>

\* except Exception as e: db.rollback(); print(...);
\* raise HTTPException(status_code=500, detail="Failed to store customer data")
PaymentError(r, e) ==
  /\ Raise(r, 500, e)
  /\ Respond(r, "Failed to store customer data")
  /\ UNCHANGED <<task, background_tasks>>

UpdateFound(r, found, p) ==
  /\ customers' = (customers \ {found}) \cup
                    {Customer(found.id, p.firstname, p.secondname, p.lastname, found.phone)}
  /\ customer' = [customer EXCEPT ![r] = found]
  /\ add_task(r, p.phone, p.firstname)
  /\ ScheduleAndReturn(r)

PaymentFoundGreetsStored(r, found, p) ==
  /\ customer' = [customer EXCEPT ![r] = found]
  /\ add_task(r, found.phone, found.first_name)
  /\ ScheduleAndReturn(r)
  /\ UNCHANGED customers

\* "if not customer" is false: the row is used as it is.
PaymentFound(r, found, p) ==
  /\ customer' = [customer EXCEPT ![r] = found]
  /\ add_task(r, p.phone, p.firstname)
  /\ ScheduleAndReturn(r)
  /\ UNCHANGED customers

\* A payment confirmation arrives: the handler parses and validates the
\* payload and, if it is valid, runs
\*   customer = db.query(Customer).filter(Customer.phone == phone).first()
\* A customer that is found needs no further statement: the handler schedules
\* the notification and returns.
PaymentStart(r) ==
  /\ Arrives(r)
  /\ kind' = [kind EXCEPT ![r] = "payment"]
  /\ \E data \in PaymentPayloads :
       LET p == parse_payment_json(data) IN
       /\ payload' = [payload EXCEPT ![r] = data]
       /\ IF ~ValidPayment(p.firstname, p.phone)
            THEN /\ Raise(r, 400, "none")
                 /\ Respond(r, "Invalid payment message format. Required fields not found.")
                 /\ UNCHANGED <<customer, customers, task, background_tasks>>
            ELSE \/ /\ QueryCustomer(p.phone) # None
                    /\ PaymentFound(r, QueryCustomer(p.phone), p)
                 \/ /\ QueryCustomer(p.phone) = None
                    /\ customer' = [customer EXCEPT ![r] = None]
                    /\ pc' = [pc EXCEPT ![r] = "commit"]
                    /\ UNCHANGED <<status, exc, task, customers, background_tasks, detail>>
                 \/ /\ PaymentError(r, "OperationalError")    \* the query raises
                    /\ UNCHANGED <<customer, customers>>
  /\ UNCHANGED <<feedback, body, new_feedback>>
  /\ UNCHANGED startupVars

InsertNothing(row) == customers

\* The committed table after db.add(customer); db.commit().
InsertCustomer(row) == customers \cup {row}

\* customer = Customer(...); db.add(customer); db.commit()
PaymentCommit(r) ==
  /\ kind[r] = "payment"
  /\ pc[r] = "commit"
  /\ LET p   == parse_payment_json(payload[r])
         row == Customer(NextId(customers), p.firstname, p.secondname, p.lastname, p.phone)
     IN
     \/ /\ ~UniqueViolation(p.phone)
        /\ customers' = InsertCustomer(row)
        /\ customer' = [customer EXCEPT ![r] = row]
        /\ pc' = [pc EXCEPT ![r] = "refresh"]
        /\ UNCHANGED <<status, exc, task, background_tasks, detail>>
     \/ /\ UniqueViolation(p.phone)                      \* db.rollback(); 500
        /\ PaymentError(r, "IntegrityError")
        /\ UNCHANGED <<customers, customer>>
     \/ /\ PaymentError(r, "OperationalError")           \* the commit raises
        /\ UNCHANGED <<customers, customer>>
  /\ UNCHANGED <<feedback, kind, payload, body, new_feedback>>
  /\ UNCHANGED startupVars

\* db.refresh(customer): a SELECT of the committed row; then schedule, return.
PaymentRefresh(r) ==
  /\ kind[r] = "payment"
  /\ pc[r] = "refresh"
  /\ \/ /\ add_task(r, parse_payment_json(payload[r]).phone,
                       parse_payment_json(payload[r]).firstname)
        /\ ScheduleAndReturn(r)
     \/ PaymentError(r, "OperationalError")              \* the refresh raises
  /\ UNCHANGED <<customers, feedback, kind, payload, body, customer, new_feedback>>
  /\ UNCHANGED startupVars

\* ------------------------------------------------- send_whatsapp_message
\* Starlette runs a background task after the response has been sent.
DispatchStart(r) ==
  /\ task[r] = "scheduled"
  /\ pc[r] = "done"
  /\ task' = [task EXCEPT ![r] = "running"]
  /\ UNCHANGED <<customers, feedback, kind, pc, payload, body, customer,
                 new_feedback, exc, status, background_tasks, detail>>
  /\ UNCHANGED startupVars

\* What client.post does: status 200, another status, or httpx raises.
DispatchOutcomes == {"status_200", "status_other", "transport_error"}

\* How the task ends: the function returns (after printing the failure when
\* the status is not 200), or the exception of httpx leaves it (nothing in the
\* function catches it).
TaskEnd(outcome) == IF outcome = "transport_error" THEN "raised" ELSE "returned"

DispatchBubbles(r, outcome) ==
  /\ task[r] = "running"
  /\ task' = [task EXCEPT ![r] = TaskEnd(outcome)]
  /\ status' = [status EXCEPT ![r] = IF outcome = "status_200" THEN @ ELSE 500]
  /\ UNCHANGED <<customers, feedback, kind, pc, payload, body, customer,
                 new_feedback, exc, background_tasks, detail>>
  /\ UNCHANGED startupVars

\* response = await client.post(...) completes.
DispatchFinish(r, outcome) ==
  /\ task[r] = "running"
  /\ task' = [task EXCEPT ![r] = TaskEnd(outcome)]
  /\ UNCHANGED <<customers, feedback, kind, pc, payload, body, customer,
                 new_feedback, exc, status, background_tasks, detail>>
  /\ UNCHANGED startupVars

\* ------------------------------------------------------------ store_feedback
FeedbackCreatesCustomer(r, fb) ==
  IF QueryCustomer(fb.phone) # None
    THEN /\ customer' = [customer EXCEPT ![r] = QueryCustomer(fb.phone)]
         /\ pc' = [pc EXCEPT ![r] = "commit"]
         /\ UNCHANGED <<status, exc, customers, detail>>
    ELSE /\ customers' = customers \cup {Customer(NextId(customers), "", "", "", fb.phone)}
         /\ customer' = [customer EXCEPT ![r] = Customer(NextId(customers), "", "", "", fb.phone)]
         /\ pc' = [pc EXCEPT ![r] = "commit"]
         /\ UNCHANGED <<status, exc, detail>>

FeedbackForNobody(r, fb) ==
  /\ customer' = [customer EXCEPT ![r] =
                    IF QueryCustomer(fb.phone) # None THEN QueryCustomer(fb.phone)
                    ELSE Customer(NextId(customers), "", "", "", fb.phone)]
  /\ pc' = [pc EXCEPT ![r] = "commit"]
  /\ UNCHANGED <<status, exc, customers, detail>>

\* customer = db.query(...).first(); if not customer: raise HTTPException(404)
FeedbackLookup(r, fb) ==
  IF QueryCustomer(fb.phone) # None
    THEN /\ customer' = [customer EXCEPT ![r] = QueryCustomer(fb.phone)]
         /\ pc' = [pc EXCEPT ![r] = "commit"]
         /\ UNCHANGED <<status, exc, customers, detail>>
    ELSE /\ Raise(r, 404, "none")
         /\ Respond(r, "Customer not found.")
         /\ UNCHANGED <<customer, customers>>

FeedbackErrorLeaks(r, e) ==
  /\ Raise(r, 500, e)
  /\ Respond(r, e)

\* except Exception as e: db.rollback(); print(...);
\* raise HTTPException(status_code=500, detail="Failed to store feedback")
FeedbackError(r, e) ==
  /\ Raise(r, 500, e)
  /\ Respond(r, "Failed to store feedback")

\* A feedback submission arrives and the handler runs its query.
FeedbackStart(r) ==
  /\ Arrives(r)
  /\ kind' = [kind EXCEPT ![r] = "feedback"]
  /\ \E fb \in FeedbackResponses :
       /\ body' = [body EXCEPT ![r] = fb]
       /\ \/ FeedbackLookup(r, fb)
          \/ /\ FeedbackError(r, "OperationalError")      \* the query raises
             /\ UNCHANGED <<customer, customers>>
  /\ UNCHANGED <<feedback, payload, new_feedback, task, background_tasks>>
  /\ UNCHANGED startupVars

NewFeedbackNoComments(id, c, fb) == Feedback(id, c.id, fb.rating, "")

\* new_feedback = Feedback(customer_id=customer.id, rating=..., comments=...)
NewFeedback(id, c, fb) == Feedback(id, c.id, fb.rating, fb.comments)

\* db.add(new_feedback); db.commit()
FeedbackCommit(r) ==
  /\ kind[r] = "feedback"
  /\ pc[r] = "commit"
  /\ \/ LET row == NewFeedback(NextId(feedback), customer[r], body[r]) IN
        /\ feedback' = feedback \cup {row}
        /\ new_feedback' = [new_feedback EXCEPT ![r] = row]
        /\ pc' = [pc EXCEPT ![r] = "refresh"]
        /\ UNCHANGED <<status, exc, detail>>
     \/ /\ FeedbackError(r, "OperationalError")          \* the commit raises
        /\ UNCHANGED <<feedback, new_feedback>>
  /\ UNCHANGED <<customers, kind, payload, body, customer, task, background_tasks>>
  /\ UNCHANGED startupVars

\* db.refresh(new_feedback); return {"status": "Feedback stored successfully."}
FeedbackRefresh(r) ==
  /\ kind[r] = "feedback"
  /\ pc[r] = "refresh"
  /\ \/ /\ pc' = [pc EXCEPT ![r] = "done"]
        /\ status' = [status EXCEPT ![r] = 200]
        /\ Respond(r, "Feedback stored successfully.")
        /\ UNCHANGED exc
     \/ FeedbackError(r, "OperationalError")             \* the refresh raises
  /\ UNCHANGED <<customers, feedback, kind, payload, body, customer, new_feedback,
                 task, background_tasks>>
  /\ UNCHANGED startupVars

\* ------------------------------------------------------------ startup_event
\* required_vars of startup_event.
RequiredVars == {"MPESA_CONSUMER_KEY", "MPESA_CONSUMER_SECRET", "MPESA_SHORTCODE",
                 "CONFIRMATION_URL", "WHATSAPP_API_TOKEN"}

\* The variables the startup path reads: the required ones and VALIDATION_URL
\* (read by register_confirmation_url, sent as it is, set or not).
EnvNames == RequiredVars \cup {"VALIDATION_URL"}

\* Exception classes met on the startup path, each a subclass of Exception:
\* requests' RequestException (transport failure, raise_for_status), KeyError
\* (no 'access_token' in the reply), ValueError (reply that is not JSON) and
\* fastapi's HTTPException.
Exceptions == {"RequestException", "KeyError", "ValueError", "HTTPException"}

\* What the token request of get_access_token can do.
TokenOutcomes == {"ok", "RequestException", "KeyError", "ValueError"}

\* What the registration request of register_confirmation_url can do.
RegisterOutcomes == {"ok", "RequestException", "ValueError"}

\* The except arm of get_access_token that takes exception e: what it prints;
\* each arm raises HTTPException(500).
TokenArm(e) ==
  IF e = "RequestException" THEN "Authentication error"
  ELSE IF e = "KeyError" THEN "Key error in response"
  ELSE "Unexpected error"

\* The except arm of register_confirmation_url that takes exception e: what
\* it prints; each arm raises HTTPException(500).
RegisterArm(e) ==
  IF e = "RequestException" THEN "Failed to register confirmation URL"
  ELSE "Unexpected error during URL registration"

StartupCatchesRequestsOnly(e) == e = "RequestException"

\* "except Exception as e" of startup_event.
StartupCatches(e) == e \in Exceptions

\* An HTTPException leaves register_confirmation_url, after the prints in
\* `printed`: startup_event catches it, prints and goes on, or it leaves the
\* startup hook.
RegistrationFailed(printed) ==
  IF StartupCatches("HTTPException")
    THEN /\ spc' = "complete"
         /\ startup_log' = startup_log \o printed
                             \o <<"URL registration failed but continuing startup">>
    ELSE /\ spc' = "failed"
         /\ startup_log' = startup_log \o printed

\* startup_event up to its call of register_confirmation_url: the warning for
\* missing variables; no registration when a credential is missing.
startup_event ==
  /\ spc = "startup"
  /\ LET missing_vars == RequiredVars \ env IN
     IF missing_vars # {}
       THEN /\ startup_log' = <<"WARNING: environment variables are missing">>
            /\ spc' = IF "MPESA_CONSUMER_KEY" \notin missing_vars
                         /\ "MPESA_CONSUMER_SECRET" \notin missing_vars
                        THEN "get_access_token" ELSE "complete"
       ELSE /\ startup_log' = <<>>
            /\ spc' = "get_access_token"
  /\ UNCHANGED <<env, access_token, servingVars>>

\* token = get_access_token(), called by register_confirmation_url: the
\* credentials check and the token request.  Whatever is raised inside comes
\* out as an HTTPException, which the "except Exception" arm of
\* register_confirmation_url turns into another HTTPException.
get_access_token(outcome) ==
  /\ spc = "get_access_token"
  /\ LET raised == IF "MPESA_CONSUMER_KEY" \notin env \/ "MPESA_CONSUMER_SECRET" \notin env
                     THEN "HTTPException"
                     ELSE outcome
     IN IF raised = "ok"
          THEN /\ access_token' = "token"
               /\ spc' = "register"
               /\ UNCHANGED startup_log
          ELSE /\ RegistrationFailed(<<TokenArm(raised), RegisterArm("HTTPException")>>)
               /\ UNCHANGED access_token
  /\ UNCHANGED <<env, servingVars>>

\* The rest of register_confirmation_url: the configuration check and the
\* registration request; on success startup_event prints the reply.
register_confirmation_url(outcome) ==
  /\ spc = "register"
  /\ LET raised == IF "MPESA_SHORTCODE" \notin env \/ "CONFIRMATION_URL" \notin env
                     THEN "HTTPException"
                     ELSE outcome
     IN IF raised = "ok"
          THEN /\ spc' = "complete"
               /\ startup_log' = Append(startup_log, "URL registration successful")
          ELSE RegistrationFailed(<<RegisterArm(raised)>>)
  /\ UNCHANGED <<env, access_token, servingVars>>

\* ------------------------------------------------- check_database, health
CheckDatabasePurges(r) ==
  /\ Arrives(r)
  /\ kind' = [kind EXCEPT ![r] = "check"]
  /\ pc' = [pc EXCEPT ![r] = "done"]
  /\ status' = [status EXCEPT ![r] = 200]
  /\ feedback' = {}
  /\ Respond(r, "data")
  /\ UNCHANGED <<customers, payload, body, customer, new_feedback, exc, task,
                 background_tasks>>
  /\ UNCHANGED startupVars

\* GET /check-database: db.query(Customer).all() and, for each customer, the
\* query of its feedback rows; the rows are returned in the response body
\* and kept nowhere.  A query that raises is answered 500.
CheckDatabase(r) ==
  /\ Arrives(r)
  /\ kind' = [kind EXCEPT ![r] = "check"]
  /\ \/ /\ pc' = [pc EXCEPT ![r] = "done"]
        /\ status' = [status EXCEPT ![r] = 200]
        /\ Respond(r, "data")
        /\ UNCHANGED exc
     \/ /\ Raise(r, 500, "OperationalError")             \* a query raises
        /\ Respond(r, "Failed to retrieve database records")
  /\ UNCHANGED <<customers, feedback, payload, body, customer, new_feedback, task,
                 background_tasks>>
  /\ UNCHANGED startupVars

\* GET /health: no database statement; "connected" as `engine` is an object.
health_check(r) ==
  /\ Arrives(r)
  /\ kind' = [kind EXCEPT ![r] = "health"]
  /\ pc' = [pc EXCEPT ![r] = "done"]
  /\ status' = [status EXCEPT ![r] = 200]
  /\ Respond(r, "healthy")
  /\ UNCHANGED <<customers, feedback, payload, body, customer, new_feedback, exc, task,
                 background_tasks>>
  /\ UNCHANGED startupVars

\* ------------------------------------------------------------ specification
\* The database file is new: Base.metadata.create_all made two empty tables;
\* no request has arrived.
NoRequests ==
  /\ customers = {}
  /\ feedback = {}
  /\ kind         = [r \in ReqIds |-> "none"]
  /\ pc           = [r \in ReqIds |-> "idle"]
  /\ payload      = [r \in ReqIds |-> NoPayload]
  /\ body         = [r \in ReqIds |-> NoFeedbackResponse]
  /\ customer     = [r \in ReqIds |-> None]
  /\ new_feedback = [r \in ReqIds |-> NoFeedback]
  /\ exc          = [r \in ReqIds |-> "none"]
  /\ status       = [r \in ReqIds |-> 0]
  /\ task         = [r \in ReqIds |-> "none"]
  /\ background_tasks = [r \in ReqIds |-> <<>>]
  /\ detail       = [r \in ReqIds |-> ""]

\* The service as it starts to take requests: the startup hook has completed,
\* here with a full environment and a registered callback URL.
Init ==
  /\ NoRequests
  /\ env = EnvNames
  /\ spc = "complete"
  /\ access_token = "token"
  /\ startup_log = <<"URL registration successful">>

Next ==
  \/ \E r \in ReqIds : PaymentStart(r)
  \/ \E r \in ReqIds : PaymentCommit(r)
  \/ \E r \in ReqIds : PaymentRefresh(r)
  \/ \E r \in ReqIds : DispatchStart(r)
  \/ \E r \in ReqIds : \E outcome \in DispatchOutcomes : DispatchFinish(r, outcome)
  \/ \E r \in ReqIds : FeedbackStart(r)
  \/ \E r \in ReqIds : FeedbackCommit(r)
  \/ \E r \in ReqIds : FeedbackRefresh(r)
  \/ \E r \in ReqIds : CheckDatabase(r)
  \/ \E r \in ReqIds : health_check(r)

Spec == Init /\ [][Next]_vars

\* A handler that has started runs to its response: the server keeps running
\* it.  Nothing is assumed of arrivals or of the background tasks.
Handler(r) == PaymentCommit(r) \/ PaymentRefresh(r) \/ FeedbackCommit(r) \/ FeedbackRefresh(r)

FairSpec == Spec /\ \A r \in ReqIds : WF_vars(Handler(r))

\* The process starts: any subset of the required variables is set.
StartupInit ==
  /\ NoRequests
  /\ env \in SUBSET EnvNames
  /\ spc = "startup"
  /\ access_token = ""
  /\ startup_log = <<>>

StartupNext ==
  \/ startup_event
  \/ \E outcome \in TokenOutcomes : get_access_token(outcome)
  \/ \E outcome \in RegisterOutcomes : register_confirmation_url(outcome)

\* The startup hook runs to its end: its requests have a 15 s timeout.
StartupSpec == StartupInit /\ [][StartupNext]_vars /\ WF_vars(StartupNext)

\* ------------------------------------------------------------------ claims
Payments  == {r \in ReqIds : kind[r] = "payment"}
Feedbacks == {r \in ReqIds : kind[r] = "feedback"}

\* The rows of "customers" with this phone.
RowsOf(phone) == {c \in customers : c.phone = phone}

\* The event of payment request r has a non-empty FirstName and MSISDN.
ValidEvent(r) == payload[r].FirstName # "" /\ payload[r].MSISDN # ""

\* C1: in every reachable state the customers table holds at most one row per
\* phone number, and exactly one for every phone for which a valid payment
\* confirmation has completed with the success acknowledgment.
C1_OneCustomerPerPhone ==
  /\ \A c, d \in customers : c.phone = d.phone => c = d
  /\ \A r \in Payments :
       status[r] = 200 => Cardinality(RowsOf(payload[r].MSISDN)) = 1

\* Two confirmations for one new phone both passed the lookup; one created the
\* row and was acknowledged, the other was rejected by the unique constraint.
C1_Witness ==
  \E r, q \in Payments :
    /\ r # q
    /\ payload[r].MSISDN = payload[q].MSISDN
    /\ status[r] = 200 /\ customer[r] \in customers
    /\ customer[r].first_name = payload[r].FirstName
    /\ exc[q] = "IntegrityError"

\* C2 (as claimed): when the store fails in no way other than rejecting a
\* duplicate phone, every valid payment confirmation, the loser of a creation
\* race included, returns the success acknowledgment and schedules its
\* notification.
C2_LoserAcknowledged ==
  (\A q \in ReqIds : exc[q] # "OperationalError") =>
    \A r \in Payments :
      (pc[r] = "done" /\ ValidEvent(r)) => (status[r] = 200 /\ task[r] # "none")

\* C3: first write wins.  No step changes or removes a row of customers, and
\* a row that a step adds carries the phone and the names of the request that
\* committed it; a later confirmation for the phone leaves the row alone.
C3_FirstWriteWins ==
  [][ /\ \A c \in customers : c \in customers'
      /\ \A c \in customers' \ customers :
           \E r \in Payments :
             /\ pc[r] = "commit" /\ pc'[r] = "refresh"
             /\ c.phone = payload[r].MSISDN
             /\ c.first_name = payload[r].FirstName
             /\ c.second_name = payload[r].MiddleName
             /\ c.last_name = payload[r].LastName
      /\ \A r \in ReqIds :
           (kind[r] = "none" /\ kind'[r] = "payment" /\ ValidEvent(r)'
              /\ RowsOf(payload'[r].MSISDN) # {})
             => /\ customers' = customers
                /\ status'[r] = 200 => customer'[r] \in RowsOf(payload'[r].MSISDN) ]_vars

\* A confirmation with other names was acknowledged for a phone that had a
\* row: the row still has the names of the request that created it.
C3_Witness ==
  \E r \in Payments :
    /\ status[r] = 200
    /\ customer[r] \in customers
    /\ customer[r].first_name # payload[r].FirstName
    /\ customer[r].last_name # payload[r].LastName

\* C4 (as claimed): for every valid payment event, once the handler has given
\* its response, whichever it is, a row for the event's MSISDN is committed.
C4_RowAtAnyResponse ==
  \A r \in Payments :
    (pc[r] = "done" /\ ValidEvent(r)) => RowsOf(payload[r].MSISDN) # {}

\* C4 (amended): for every valid payment event that is answered with the
\* success acknowledgment, a row for the event's MSISDN is committed when the
\* response is given and in every state of the notification after it.
C4_RowAtAcknowledgment ==
  \A r \in Payments :
    status[r] = 200 =>
      /\ ValidEvent(r)
      /\ \E c \in customers : c.phone = payload[r].MSISDN /\ c = customer[r]
      /\ task[r] \in {"scheduled", "running", "returned", "raised"}

\* Acknowledged requests whose notification has not started, is in flight and
\* has failed, each with its row.
C4_Witness ==
  \E r, q, u \in Payments :
    /\ status[r] = 200 /\ task[r] = "scheduled"
    /\ status[q] = 200 /\ task[q] = "running"
    /\ status[u] = 200 /\ task[u] = "raised"
    /\ customers # {}

\* C5: a payment event with an empty FirstName or an empty MSISDN is answered
\* with status 400 and has no side effect: the step that answers it changes
\* no table and schedules no task, and the request never has a task.
C5_InvalidPayloadRejected ==
  [][ \A r \in ReqIds :
        (kind'[r] = "payment"
           /\ (payload'[r].FirstName = "" \/ payload'[r].MSISDN = ""))
          => /\ pc'[r] = "done" /\ status'[r] = 400
             /\ task'[r] = "none" /\ customer'[r] = None
             /\ kind[r] = "none" => (customers' = customers /\ feedback' = feedback
                                       /\ task' = task) ]_vars

\* Both kinds of invalid event were rejected while the store held rows.
C5_Witness ==
  /\ \E r \in Payments : status[r] = 400 /\ payload[r].MSISDN = ""
  /\ \E r \in Payments : status[r] = 400 /\ payload[r].FirstName = ""
  /\ customers # {}

\* C6: a feedback submission whose lookup finds no customer with its phone is
\* answered with status 404, and the step leaves both tables as they were;
\* the request writes nothing afterwards.
C6_UnknownPhoneNotFound ==
  [][ \A r \in ReqIds :
        /\ (kind[r] = "none" /\ kind'[r] = "feedback" /\ exc'[r] = "none"
              /\ RowsOf(body'[r].phone) = {})
             => /\ pc'[r] = "done" /\ status'[r] = 404
                /\ customers' = customers /\ feedback' = feedback
        /\ (kind[r] = "feedback" /\ status[r] = 404)
             => (pc'[r] = "done" /\ status'[r] = 404 /\ new_feedback'[r] = NoFeedback) ]_vars

\* A submission for an unknown phone was answered 404 while another phone had
\* a customer and a feedback row.
C6_Witness ==
  \E r \in Feedbacks :
    /\ status[r] = 404
    /\ RowsOf(body[r].phone) = {}
    /\ customers # {} /\ feedback # {}

\* The feedback row the commit of request r appends: the next identifier, the
\* id of the customer that has the submitted phone, the submitted values.
C7_Appended(r, row) ==
  /\ row \notin feedback
  /\ feedback' = feedback \cup {row}
  /\ \E c \in customers : c.phone = body[r].phone /\ row.customer_id = c.id
  /\ row.rating = body[r].rating
  /\ row.comments = body[r].comments
  /\ new_feedback'[r] = row

\* C7: a feedback submission for a phone that has a customer, with no storage
\* failure, appends exactly one row (at its commit, and at no other step) with
\* that customer's id and the submitted rating and comments, changes no
\* customer row and no earlier feedback row, and is answered with status 200.
C7_FeedbackAppended ==
  [][ \A r \in ReqIds :
        (kind'[r] = "feedback" /\ pc'[r] # pc[r]) =>
          /\ customers' = customers
          /\ \A f \in feedback : f \in feedback'
          /\ IF pc'[r] = "refresh"
               THEN \E row \in feedback' : C7_Appended(r, row)
               ELSE feedback' = feedback
          /\ (pc'[r] = "done" /\ exc'[r] = "none" /\ RowsOf(body'[r].phone) # {})
               => (status'[r] = 200 /\ new_feedback'[r] \in feedback') ]_vars

\* A submission was stored and acknowledged after an earlier one for the same
\* customer.
C7_Witness ==
  \E r, q \in Feedbacks :
    /\ r # q
    /\ status[r] = 200 /\ status[q] = 200
    /\ new_feedback[r].id = 1 /\ new_feedback[q].id = 2
    /\ new_feedback[q].customer_id = new_feedback[r].customer_id
    /\ {new_feedback[r], new_feedback[q]} \subseteq feedback

\* C8: every feedback row references an existing customer row; when the
\* feedback row is written that customer is already committed, by a payment
\* confirmation.
C8_FeedbackReferencesCustomer ==
  [][ /\ \A f \in feedback' : \E c \in customers' : c.id = f.customer_id
      /\ \A f \in feedback' \ feedback :
           \E c \in customers :
             /\ c.id = f.customer_id
             /\ \E r \in Payments :
                  /\ customer[r] = c /\ pc[r] \in {"refresh", "done"}
                  /\ c.phone = payload[r].MSISDN
                  /\ c.first_name = payload[r].FirstName ]_vars

\* A feedback row references the second of two customers.
C8_Witness ==
  \E f \in feedback : \E c \in customers :
    f.customer_id = 2 /\ c.id = 2 /\ Cardinality(customers) = 2

\* C9: the response of the payment handler neither waits for the notification
\* nor depends on it.  A valid payment request reaches its response whether
\* or not a dispatch ever runs, with status 200 unless the store raised; and
\* no step of a dispatch, whatever its outcome, changes a response or a table.
C9_ResponseIndependentOfDispatch ==
  /\ \A r \in ReqIds :
       (kind[r] = "payment" /\ pc[r] # "done")
         ~> (pc[r] = "done" /\ (exc[r] = "none" => status[r] = 200))
  /\ [][ \A r \in ReqIds :
           (task[r] # "none" /\ task'[r] # task[r])
             => (status' = status /\ pc' = pc /\ exc' = exc
                   /\ customers' = customers /\ feedback' = feedback) ]_vars

\* An acknowledged request whose dispatch has failed, one whose dispatch is in
\* flight and one whose dispatch has not started.
C9_Witness ==
  \E r, q, u \in Payments :
    /\ status[r] = 200 /\ task[r] = "raised"
    /\ status[q] = 200 /\ task[q] = "running"
    /\ status[u] = 200 /\ task[u] = "scheduled"

\* C10 (as claimed): when a store statement of the payment handler raises, the
\* request is answered with status 500, has no task, and no row of this
\* request is in the customers table.
C10_FailureLeavesStoreUntouched ==
  \A r \in Payments :
    exc[r] # "none" =>
      /\ status[r] = 500
      /\ task[r] = "none"
      /\ customer[r] \notin customers

\* C11: within a payment handler invocation the customer row is committed
\* before the notification is scheduled: the step that schedules the task of
\* a request finds the request's row already in the table, and no dispatch
\* is scheduled or running for a phone that has no committed row.
C11_ResolveBeforeSchedule ==
  [][ \A r \in ReqIds :
        /\ (task[r] = "none" /\ task'[r] # "none")
             => /\ customer'[r] \in customers
                /\ customer'[r].phone = payload'[r].MSISDN
        /\ task'[r] \in {"scheduled", "running"}
             => RowsOf(payload'[r].MSISDN) # {} ]_vars

\* A dispatch is running for a request that created its row, another is
\* scheduled for a request that found that row.
C11_Witness ==
  \E r, q \in Payments :
    /\ r # q
    /\ task[r] = "running" /\ task[q] = "scheduled"
    /\ customer[r] = customer[q] /\ customer[r] \in customers
    /\ customer[r].first_name = payload[r].FirstName

\* C12 (as claimed): the notification task never ends with an exception
\* leaving it, for a non-success status and for a transport error alike.
C12_DispatchNeverRaises ==
  \A r \in ReqIds : task[r] # "raised"

\* C13 (as claimed): a feedback request whose store statement raised is
\* answered 500 and leaves no feedback row of its own; 404 is the answer
\* exactly when the lookup ran and found no customer, never for a store
\* failure.
C13_FeedbackFailureResponses ==
  \A r \in Feedbacks :
    pc[r] = "done" =>
      /\ exc[r] # "none" => (status[r] = 500 /\ new_feedback[r] \notin feedback)
      /\ status[r] = 404 <=> (exc[r] = "none" /\ customer[r] = None)

\* Every feedback request of the run has been answered.
FeedbackQuiet == \A r \in Feedbacks : pc[r] = "done"

\* C14 (as claimed): once the submissions are answered, the number of
\* feedback rows of a customer is the number of submissions for that
\* customer's phone that were answered with success.
C14_RowsEqualSuccesses ==
  FeedbackQuiet =>
    \A c \in customers :
      Cardinality({f \in feedback : f.customer_id = c.id})
        = Cardinality({r \in Feedbacks : status[r] = 200 /\ body[r].phone = c.phone})

\* C15: the store only grows.  No step of any operation (payment
\* confirmation, feedback submission, notification dispatch, check-database,
\* health) removes or changes a row of customers or of feedback: every row of
\* a state is a row of the next state, with the same field values, and no
\* second row takes its identifier.
C15_StoreOnlyGrows ==
  [][ /\ \A c \in customers : c \in customers'
      /\ \A f \in feedback : f \in feedback'
      /\ \A c \in customers' : \A d \in customers : c.id = d.id => c = d
      /\ \A f \in feedback' : \A g \in feedback : f.id = g.id => f = g ]_vars

\* check-database was served while both tables held rows.
C15_Witness ==
  /\ \E r \in ReqIds : kind[r] = "check" /\ status[r] = 200
  /\ customers # {} /\ feedback # {}

\* C17: a server-error response carries no internal detail.  The body of a
\* 500 response is one fixed text per endpoint, so two requests to one
\* endpoint that failed on different faults have the same response.
C17_NoLeakInServerError ==
  /\ \A r \in ReqIds :
       status[r] = 500 =>
         /\ kind[r] = "payment"  => detail[r] = "Failed to store customer data"
         /\ kind[r] = "feedback" => detail[r] = "Failed to store feedback"
         /\ detail[r] # exc[r]
  /\ \A r, q \in ReqIds :
       (kind[r] = kind[q] /\ status[r] = 500 /\ status[q] = 500)
         => detail[r] = detail[q]

\* Two payment requests failed on different faults (the unique constraint,
\* an operational error) and a feedback request failed too.
C17_Witness ==
  /\ \E r, q \in Payments :
       /\ status[r] = 500 /\ exc[r] = "IntegrityError"
       /\ status[q] = 500 /\ exc[q] = "OperationalError"
  /\ \E r \in Feedbacks : status[r] = 500

\* The one call add_task queues for the event of payment request r.
C18_Greeting(r) == [phone |-> payload[r].MSISDN, firstname |-> payload[r].FirstName]

\* C18: a payment request answered with the success acknowledgment has
\* queued exactly one dispatch, to the event's MSISDN with the event's first
\* name (not the stored one); a request answered with an error, or not yet
\* answered, has queued none.
C18_OneDispatchPerAcknowledgment ==
  \A r \in ReqIds :
    /\ (kind[r] = "payment" /\ status[r] = 200)
         => (background_tasks[r] = <<C18_Greeting(r)>> /\ task[r] # "none")
    /\ status[r] # 200
         => (background_tasks[r] = <<>> /\ task[r] = "none")
    /\ kind[r] # "payment"
         => (background_tasks[r] = <<>> /\ task[r] = "none")

\* An acknowledged request for a customer stored under another first name,
\* a request rejected with 400 and one answered 500.
C18_Witness ==
  \E r, q, u \in Payments :
    /\ status[r] = 200
    /\ customer[r].first_name # payload[r].FirstName
    /\ background_tasks[r][1].firstname = payload[r].FirstName
    /\ status[q] = 400
    /\ status[u] = 500

\* C16: service startup always completes.  Whatever the environment and
\* whatever the token exchange and the URL registration do, the startup hook
\* ends without an exception leaving it, and the service then takes requests.
C16_StartupCompletes ==
  /\ <>(spc = "complete")
  /\ [](spc # "failed")
  /\ [](spc = "complete" => ENABLED (\E r \in ReqIds : PaymentStart(r)))

\* Startup completed after a failed token exchange although the whole
\* environment was set.
C16_Witness ==
  /\ spc = "complete"
  /\ RequiredVars \subseteq env
  /\ access_token = ""
  /\ Len(startup_log) = 3
====
